---- MODULE Spec2Model ----
(***************************************************************************)
(* Model of sec_connector: SECClient (client.py) over the pydantic models  *)
(* Company, Filing and FilingFilter (models.py).                           *)
(*                                                                         *)
(* Python str values are sequences of one-character strings.  A value of   *)
(* a raw dict field is a record [t, v]: t is "absent" (key missing),       *)
(* "none" (None), "str" or "int"; v is the text of a str, or the decimal   *)
(* rendering str(n) of an int, and <<>> otherwise.                         *)
(***************************************************************************)
EXTENDS Integers, Sequences, FiniteSets, TLC

VARIABLES companies, filings, fsys, call

vars == <<companies, filings, fsys, call>>

----------------------------------------------------------------------------
(* Bounds of the explored inputs *)

MaxFilings == 3
MaxCompanies == 2
MaxLimit == 2

(* models.py: the width passed to str.zfill *)
CikWidth == 10

----------------------------------------------------------------------------
(* Python str primitives.  A character is a one-character string; one
   outside printable ASCII is named "U+" and its code point in at least four
   hexadecimal digits, except "\t", "\n", "\f" and "\r".  The tables are
   those of the Unicode Character Database behind str.isdigit, str.isspace
   and str.upper (Unicode 15). *)

DigitChars == <<"0", "1", "2", "3", "4", "5", "6", "7", "8", "9">>

LowerChars == <<"a", "b", "c", "d", "e", "f", "g", "h", "i", "j", "k", "l", "m",
                "n", "o", "p", "q", "r", "s", "t", "u", "v", "w", "x", "y", "z">>

UpperChars == <<"A", "B", "C", "D", "E", "F", "G", "H", "I", "J", "K", "L", "M",
                "N", "O", "P", "Q", "R", "S", "T", "U", "V", "W", "X", "Y", "Z">>

HexChars == <<"0", "1", "2", "3", "4", "5", "6", "7", "8", "9",
              "A", "B", "C", "D", "E", "F">>

Range(s) == {s[i] : i \in DOMAIN s}

RECURSIVE HexText(_)
HexText(n) ==
    IF n < 16 THEN HexChars[n + 1]
    ELSE HexText(n \div 16) \o HexChars[(n % 16) + 1]

(* the name of the character with code point n *)
CodePoint(n) ==
    "U+" \o (IF n < 16 THEN "000" ELSE IF n < 256 THEN "00"
             ELSE IF n < 4096 THEN "0" ELSE "") \o HexText(n)

(* the character with code point n, for n a capital ASCII letter or
   outside ASCII *)
Chr(n) == IF n \in 65..90 THEN UpperChars[n - 64] ELSE CodePoint(n)

(* the characters outside ASCII with c.isdigit(), as runs <<first, last>>
   of code points *)
DigitRuns ==
    {<<178, 179>>, <<185, 185>>, <<1632, 1641>>, <<1776, 1785>>,
     <<1984, 1993>>, <<2406, 2415>>, <<2534, 2543>>, <<2662, 2671>>,
     <<2790, 2799>>, <<2918, 2927>>, <<3046, 3055>>, <<3174, 3183>>,
     <<3302, 3311>>, <<3430, 3439>>, <<3558, 3567>>, <<3664, 3673>>,
     <<3792, 3801>>, <<3872, 3881>>, <<4160, 4169>>, <<4240, 4249>>,
     <<4969, 4977>>, <<6112, 6121>>, <<6160, 6169>>, <<6470, 6479>>,
     <<6608, 6618>>, <<6784, 6793>>, <<6800, 6809>>, <<6992, 7001>>,
     <<7088, 7097>>, <<7232, 7241>>, <<7248, 7257>>, <<8304, 8304>>,
     <<8308, 8313>>, <<8320, 8329>>, <<9312, 9320>>, <<9332, 9340>>,
     <<9352, 9360>>, <<9450, 9450>>, <<9461, 9469>>, <<9471, 9471>>,
     <<10102, 10110>>, <<10112, 10120>>, <<10122, 10130>>, <<42528, 42537>>,
     <<43216, 43225>>, <<43264, 43273>>, <<43472, 43481>>, <<43504, 43513>>,
     <<43600, 43609>>, <<44016, 44025>>, <<65296, 65305>>, <<66720, 66729>>,
     <<68160, 68163>>, <<68912, 68921>>, <<69216, 69224>>, <<69714, 69722>>,
     <<69734, 69743>>, <<69872, 69881>>, <<69942, 69951>>, <<70096, 70105>>,
     <<70384, 70393>>, <<70736, 70745>>, <<70864, 70873>>, <<71248, 71257>>,
     <<71360, 71369>>, <<71472, 71481>>, <<71904, 71913>>, <<72016, 72025>>,
     <<72784, 72793>>, <<73040, 73049>>, <<73120, 73129>>, <<73552, 73561>>,
     <<92768, 92777>>, <<92864, 92873>>, <<93008, 93017>>, <<120782, 120831>>,
     <<123200, 123209>>, <<123632, 123641>>, <<124144, 124153>>,
     <<125264, 125273>>, <<127232, 127242>>, <<130032, 130041>>}

NonAsciiDigitChars ==
    UNION {{CodePoint(n) : n \in r[1]..r[2]} : r \in DigitRuns}

(* the "0".."9" that date.fromisoformat reads *)
IsAsciiDigitChar(c) == c \in Range(DigitChars)

(* c.isdigit() *)
IsDigitChar(c) ==
    IsAsciiDigitChar(c) \/ (Len(c) > 1 /\ c \in NonAsciiDigitChars)

(* the characters str.strip() removes: those with c.isspace() *)
SpaceChars ==
    {"\t", "\n", "U+000B", "\f", "\r", "U+001C", "U+001D", "U+001E", "U+001F",
     " ", "U+0085", "U+00A0", "U+1680", "U+2000", "U+2001", "U+2002", "U+2003",
     "U+2004", "U+2005", "U+2006", "U+2007", "U+2008", "U+2009", "U+200A",
     "U+2028", "U+2029", "U+202F", "U+205F", "U+3000"}

IsSpaceChar(c) == c \in SpaceChars

DigitVal(c) == (CHOOSE i \in DOMAIN DigitChars : DigitChars[i] = c) - 1

DigitChar(n) == DigitChars[n + 1]

(* the characters outside ASCII whose upper-case form is one other
   character, as runs <<first, last, step, offset>> of code points: every
   step-th character from first to last maps to the one offset away *)
UpperRuns ==
    {<<181, 181, 1, 743>>, <<224, 246, 1, -32>>, <<248, 254, 1, -32>>,
     <<255, 255, 1, 121>>, <<257, 303, 2, -1>>, <<305, 305, 1, -232>>,
     <<307, 311, 2, -1>>, <<314, 328, 2, -1>>, <<331, 375, 2, -1>>,
     <<378, 382, 2, -1>>, <<383, 383, 1, -300>>, <<384, 384, 1, 195>>,
     <<387, 389, 2, -1>>, <<392, 392, 1, -1>>, <<396, 396, 1, -1>>,
     <<402, 402, 1, -1>>, <<405, 405, 1, 97>>, <<409, 409, 1, -1>>,
     <<410, 410, 1, 163>>, <<414, 414, 1, 130>>, <<417, 421, 2, -1>>,
     <<424, 424, 1, -1>>, <<429, 429, 1, -1>>, <<432, 432, 1, -1>>,
     <<436, 438, 2, -1>>, <<441, 441, 1, -1>>, <<445, 445, 1, -1>>,
     <<447, 447, 1, 56>>, <<453, 453, 1, -1>>, <<454, 454, 1, -2>>,
     <<456, 456, 1, -1>>, <<457, 457, 1, -2>>, <<459, 459, 1, -1>>,
     <<460, 460, 1, -2>>, <<462, 476, 2, -1>>, <<477, 477, 1, -79>>,
     <<479, 495, 2, -1>>, <<498, 498, 1, -1>>, <<499, 499, 1, -2>>,
     <<501, 501, 1, -1>>, <<505, 543, 2, -1>>, <<547, 563, 2, -1>>,
     <<572, 572, 1, -1>>, <<575, 576, 1, 10815>>, <<578, 578, 1, -1>>,
     <<583, 591, 2, -1>>, <<592, 592, 1, 10783>>, <<593, 593, 1, 10780>>,
     <<594, 594, 1, 10782>>, <<595, 595, 1, -210>>, <<596, 596, 1, -206>>,
     <<598, 599, 1, -205>>, <<601, 601, 1, -202>>, <<603, 603, 1, -203>>,
     <<604, 604, 1, 42319>>, <<608, 608, 1, -205>>, <<609, 609, 1, 42315>>,
     <<611, 611, 1, -207>>, <<613, 613, 1, 42280>>, <<614, 614, 1, 42308>>,
     <<616, 616, 1, -209>>, <<617, 617, 1, -211>>, <<618, 618, 1, 42308>>,
     <<619, 619, 1, 10743>>, <<620, 620, 1, 42305>>, <<623, 623, 1, -211>>,
     <<625, 625, 1, 10749>>, <<626, 626, 1, -213>>, <<629, 629, 1, -214>>,
     <<637, 637, 1, 10727>>, <<640, 640, 1, -218>>, <<642, 642, 1, 42307>>,
     <<643, 643, 1, -218>>, <<647, 647, 1, 42282>>, <<648, 648, 1, -218>>,
     <<649, 649, 1, -69>>, <<650, 651, 1, -217>>, <<652, 652, 1, -71>>,
     <<658, 658, 1, -219>>, <<669, 669, 1, 42261>>, <<670, 670, 1, 42258>>,
     <<837, 837, 1, 84>>, <<881, 883, 2, -1>>, <<887, 887, 1, -1>>,
     <<891, 893, 1, 130>>, <<940, 940, 1, -38>>, <<941, 943, 1, -37>>,
     <<945, 961, 1, -32>>, <<962, 962, 1, -31>>, <<963, 971, 1, -32>>,
     <<972, 972, 1, -64>>, <<973, 974, 1, -63>>, <<976, 976, 1, -62>>,
     <<977, 977, 1, -57>>, <<981, 981, 1, -47>>, <<982, 982, 1, -54>>,
     <<983, 983, 1, -8>>, <<985, 1007, 2, -1>>, <<1008, 1008, 1, -86>>,
     <<1009, 1009, 1, -80>>, <<1010, 1010, 1, 7>>, <<1011, 1011, 1, -116>>,
     <<1013, 1013, 1, -96>>, <<1016, 1016, 1, -1>>, <<1019, 1019, 1, -1>>,
     <<1072, 1103, 1, -32>>, <<1104, 1119, 1, -80>>, <<1121, 1153, 2, -1>>,
     <<1163, 1215, 2, -1>>, <<1218, 1230, 2, -1>>, <<1231, 1231, 1, -15>>,
     <<1233, 1327, 2, -1>>, <<1377, 1414, 1, -48>>, <<4304, 4346, 1, 3008>>,
     <<4349, 4351, 1, 3008>>, <<5112, 5117, 1, -8>>, <<7296, 7296, 1, -6254>>,
     <<7297, 7297, 1, -6253>>, <<7298, 7298, 1, -6244>>,
     <<7299, 7300, 1, -6242>>, <<7301, 7301, 1, -6243>>,
     <<7302, 7302, 1, -6236>>, <<7303, 7303, 1, -6181>>,
     <<7304, 7304, 1, 35266>>, <<7545, 7545, 1, 35332>>,
     <<7549, 7549, 1, 3814>>, <<7566, 7566, 1, 35384>>, <<7681, 7829, 2, -1>>,
     <<7835, 7835, 1, -59>>, <<7841, 7935, 2, -1>>, <<7936, 7943, 1, 8>>,
     <<7952, 7957, 1, 8>>, <<7968, 7975, 1, 8>>, <<7984, 7991, 1, 8>>,
     <<8000, 8005, 1, 8>>, <<8017, 8023, 2, 8>>, <<8032, 8039, 1, 8>>,
     <<8048, 8049, 1, 74>>, <<8050, 8053, 1, 86>>, <<8054, 8055, 1, 100>>,
     <<8056, 8057, 1, 128>>, <<8058, 8059, 1, 112>>, <<8060, 8061, 1, 126>>,
     <<8112, 8113, 1, 8>>, <<8126, 8126, 1, -7205>>, <<8144, 8145, 1, 8>>,
     <<8160, 8161, 1, 8>>, <<8165, 8165, 1, 7>>, <<8526, 8526, 1, -28>>,
     <<8560, 8575, 1, -16>>, <<8580, 8580, 1, -1>>, <<9424, 9449, 1, -26>>,
     <<11312, 11359, 1, -48>>, <<11361, 11361, 1, -1>>,
     <<11365, 11365, 1, -10795>>, <<11366, 11366, 1, -10792>>,
     <<11368, 11372, 2, -1>>, <<11379, 11379, 1, -1>>,
     <<11382, 11382, 1, -1>>, <<11393, 11491, 2, -1>>,
     <<11500, 11502, 2, -1>>, <<11507, 11507, 1, -1>>,
     <<11520, 11557, 1, -7264>>, <<11559, 11559, 1, -7264>>,
     <<11565, 11565, 1, -7264>>, <<42561, 42605, 2, -1>>,
     <<42625, 42651, 2, -1>>, <<42787, 42799, 2, -1>>,
     <<42803, 42863, 2, -1>>, <<42874, 42876, 2, -1>>,
     <<42879, 42887, 2, -1>>, <<42892, 42892, 1, -1>>,
     <<42897, 42899, 2, -1>>, <<42900, 42900, 1, 48>>,
     <<42903, 42921, 2, -1>>, <<42933, 42947, 2, -1>>,
     <<42952, 42954, 2, -1>>, <<42961, 42961, 1, -1>>,
     <<42967, 42969, 2, -1>>, <<42998, 42998, 1, -1>>,
     <<43859, 43859, 1, -928>>, <<43888, 43967, 1, -38864>>,
     <<65345, 65370, 1, -32>>, <<66600, 66639, 1, -40>>,
     <<66776, 66811, 1, -40>>, <<66967, 66977, 1, -39>>,
     <<66979, 66993, 1, -39>>, <<66995, 67001, 1, -39>>,
     <<67003, 67004, 1, -39>>, <<68800, 68850, 1, -64>>,
     <<71872, 71903, 1, -32>>, <<93792, 93823, 1, -32>>,
     <<125218, 125251, 1, -34>>}

(* the characters whose upper-case form has several characters, each with
   the code points of that form *)
UpperSpecial ==
    {<<223, <<83, 83>>>>, <<329, <<700, 78>>>>, <<496, <<74, 780>>>>,
     <<912, <<921, 776, 769>>>>, <<944, <<933, 776, 769>>>>,
     <<1415, <<1333, 1362>>>>, <<7830, <<72, 817>>>>, <<7831, <<84, 776>>>>,
     <<7832, <<87, 778>>>>, <<7833, <<89, 778>>>>, <<7834, <<65, 702>>>>,
     <<8016, <<933, 787>>>>, <<8018, <<933, 787, 768>>>>,
     <<8020, <<933, 787, 769>>>>, <<8022, <<933, 787, 834>>>>,
     <<8064, <<7944, 921>>>>, <<8065, <<7945, 921>>>>,
     <<8066, <<7946, 921>>>>, <<8067, <<7947, 921>>>>,
     <<8068, <<7948, 921>>>>, <<8069, <<7949, 921>>>>,
     <<8070, <<7950, 921>>>>, <<8071, <<7951, 921>>>>,
     <<8072, <<7944, 921>>>>, <<8073, <<7945, 921>>>>,
     <<8074, <<7946, 921>>>>, <<8075, <<7947, 921>>>>,
     <<8076, <<7948, 921>>>>, <<8077, <<7949, 921>>>>,
     <<8078, <<7950, 921>>>>, <<8079, <<7951, 921>>>>,
     <<8080, <<7976, 921>>>>, <<8081, <<7977, 921>>>>,
     <<8082, <<7978, 921>>>>, <<8083, <<7979, 921>>>>,
     <<8084, <<7980, 921>>>>, <<8085, <<7981, 921>>>>,
     <<8086, <<7982, 921>>>>, <<8087, <<7983, 921>>>>,
     <<8088, <<7976, 921>>>>, <<8089, <<7977, 921>>>>,
     <<8090, <<7978, 921>>>>, <<8091, <<7979, 921>>>>,
     <<8092, <<7980, 921>>>>, <<8093, <<7981, 921>>>>,
     <<8094, <<7982, 921>>>>, <<8095, <<7983, 921>>>>,
     <<8096, <<8040, 921>>>>, <<8097, <<8041, 921>>>>,
     <<8098, <<8042, 921>>>>, <<8099, <<8043, 921>>>>,
     <<8100, <<8044, 921>>>>, <<8101, <<8045, 921>>>>,
     <<8102, <<8046, 921>>>>, <<8103, <<8047, 921>>>>,
     <<8104, <<8040, 921>>>>, <<8105, <<8041, 921>>>>,
     <<8106, <<8042, 921>>>>, <<8107, <<8043, 921>>>>,
     <<8108, <<8044, 921>>>>, <<8109, <<8045, 921>>>>,
     <<8110, <<8046, 921>>>>, <<8111, <<8047, 921>>>>,
     <<8114, <<8122, 921>>>>, <<8115, <<913, 921>>>>, <<8116, <<902, 921>>>>,
     <<8118, <<913, 834>>>>, <<8119, <<913, 834, 921>>>>,
     <<8124, <<913, 921>>>>, <<8130, <<8138, 921>>>>, <<8131, <<919, 921>>>>,
     <<8132, <<905, 921>>>>, <<8134, <<919, 834>>>>,
     <<8135, <<919, 834, 921>>>>, <<8140, <<919, 921>>>>,
     <<8146, <<921, 776, 768>>>>, <<8147, <<921, 776, 769>>>>,
     <<8150, <<921, 834>>>>, <<8151, <<921, 776, 834>>>>,
     <<8162, <<933, 776, 768>>>>, <<8163, <<933, 776, 769>>>>,
     <<8164, <<929, 787>>>>, <<8166, <<933, 834>>>>,
     <<8167, <<933, 776, 834>>>>, <<8178, <<8186, 921>>>>,
     <<8179, <<937, 921>>>>, <<8180, <<911, 921>>>>, <<8182, <<937, 834>>>>,
     <<8183, <<937, 834, 921>>>>, <<8188, <<937, 921>>>>,
     <<64256, <<70, 70>>>>, <<64257, <<70, 73>>>>, <<64258, <<70, 76>>>>,
     <<64259, <<70, 70, 73>>>>, <<64260, <<70, 70, 76>>>>,
     <<64261, <<83, 84>>>>, <<64262, <<83, 84>>>>, <<64275, <<1348, 1350>>>>,
     <<64276, <<1348, 1333>>>>, <<64277, <<1348, 1339>>>>,
     <<64278, <<1358, 1350>>>>, <<64279, <<1348, 1341>>>>}

(* c and c.upper() for every character outside ASCII that str.upper changes *)
UpperPairs ==
    UNION {{<<CodePoint(n), <<Chr(n + r[4])>>>> :
               n \in {k \in r[1]..r[2] : (k - r[1]) % r[3] = 0}} : r \in UpperRuns}
    \cup {<<CodePoint(p[1]), [i \in DOMAIN p[2] |-> Chr(p[2][i])]>> :
             p \in UpperSpecial}

(* c.upper(): a str, of more than one character for some c *)
UpperChar(c) ==
    IF Len(c) = 1
    THEN IF c \in Range(LowerChars)
         THEN <<UpperChars[CHOOSE i \in DOMAIN LowerChars : LowerChars[i] = c]>>
         ELSE <<c>>
    ELSE IF \E p \in UpperPairs : p[1] = c
         THEN (CHOOSE p \in UpperPairs : p[1] = c)[2]
         ELSE <<c>>

(* s.upper() *)
RECURSIVE Upper(_)
Upper(s) == IF s = <<>> THEN <<>> ELSE UpperChar(Head(s)) \o Upper(Tail(s))

(* the named characters that take one and two bytes in UTF-8 *)
OneByteChars == {CodePoint(n) : n \in 0..127}

TwoByteChars == {CodePoint(n) : n \in 128..2047}

(* len(c.encode()) *)
Utf8CharLen(c) ==
    IF Len(c) = 1 \/ c \in OneByteChars THEN 1
    ELSE IF c \in TwoByteChars THEN 2
    ELSE IF Len(c) = 6 THEN 3 ELSE 4

(* len(s.encode()) *)
RECURSIVE Utf8Len(_)
Utf8Len(s) ==
    IF s = <<>> THEN 0 ELSE Utf8CharLen(Head(s)) + Utf8Len(Tail(s))

RECURSIVE LStrip(_)
LStrip(s) ==
    IF s # <<>> /\ IsSpaceChar(Head(s)) THEN LStrip(Tail(s)) ELSE s

RECURSIVE RStrip(_)
RStrip(s) ==
    IF s # <<>> /\ IsSpaceChar(s[Len(s)])
    THEN RStrip(SubSeq(s, 1, Len(s) - 1))
    ELSE s

(* str.strip() *)
Strip(s) == RStrip(LStrip(s))

(* str.isdigit(): non-empty and every character a digit *)
IsDigit(s) == s # <<>> /\ \A i \in DOMAIN s : IsDigitChar(s[i])

Zeros(n) == [i \in 1..n |-> "0"]

(* str.zfill(width): never shortens; the fill goes after a leading sign *)
Zfill(s, width) ==
    IF Len(s) >= width THEN s
    ELSE IF s # <<>> /\ Head(s) \in {"+", "-"}
         THEN <<Head(s)>> \o Zeros(width - Len(s)) \o Tail(s)
         ELSE Zeros(width - Len(s)) \o s

----------------------------------------------------------------------------
(* Python values of raw dict fields *)

Absent == [t |-> "absent", v |-> <<>>]
PyNone == [t |-> "none", v |-> <<>>]
PyStr(s) == [t |-> "str", v |-> s]
PyInt(digits) == [t |-> "int", v |-> digits]

(* dict.get(key): a missing key reads as None *)
Get(val) == IF val.t = "absent" THEN PyNone ELSE val

(* dict.get(key, ""): a missing key reads as the empty str *)
GetOrEmpty(val) == IF val.t = "absent" THEN PyStr(<<>>) ELSE val

(* bool(x): None, "" and 0 are falsy *)
Truthy(val) ==
    CASE val.t = "str" -> val.v # <<>>
      [] val.t = "int" -> val.v # <<"0">>
      [] OTHER -> FALSE

(* str(x) *)
ToStr(val) ==
    CASE val.t = "none" -> <<"N", "o", "n", "e">>
      [] OTHER -> val.v

----------------------------------------------------------------------------
(* datetime.date *)

NoDate == [y |-> 0, m |-> 0, d |-> 0]

IsLeap(y) == y % 4 = 0 /\ (y % 100 # 0 \/ y % 400 = 0)

DaysInMonth(y, m) ==
    IF m = 2 THEN (IF IsLeap(y) THEN 29 ELSE 28)
    ELSE IF m \in {4, 6, 9, 11} THEN 30 ELSE 31

ValidDate(y, m, d) ==
    /\ y \in 1..9999
    /\ m \in 1..12
    /\ d \in 1..DaysInMonth(y, m)

(* days before January 1 of year y, y >= 1 *)
DaysBeforeYear(y) ==
    (y - 1) * 365 + (y - 1) \div 4 - (y - 1) \div 100 + (y - 1) \div 400

RECURSIVE DaysBeforeMonth(_, _)
DaysBeforeMonth(y, m) ==
    IF m = 1 THEN 0 ELSE DaysBeforeMonth(y, m - 1) + DaysInMonth(y, m - 1)

(* the ordinal of a date, 0001-01-01 being day 1 *)
YmdToOrd(y, m, d) == DaysBeforeYear(y) + DaysBeforeMonth(y, m) + d

(* Monday is 0 *)
Weekday(y, m, d) == (YmdToOrd(y, m, d) + 6) % 7

(* the ordinal of the Monday that starts ISO week 1 of year y *)
IsoWeek1Monday(y) ==
    LET first_day == YmdToOrd(y, 1, 1)
        first_weekday == (first_day + 6) % 7
        week1_monday == first_day - first_weekday
    IN  IF first_weekday > 3 THEN week1_monday + 7 ELSE week1_monday

(* the date of ordinal n, which lies in year near - 1, near or near + 1;
   NoDate when the year leaves 1..9999 *)
OrdToYmd(n, near) ==
    LET years == {y \in {near - 1, near, near + 1} \cap (1..9999) :
                     DaysBeforeYear(y) < n /\ n <= DaysBeforeYear(y + 1)}
    IN  IF years = {} THEN NoDate
        ELSE LET y == CHOOSE yy \in years : TRUE
                 rest == n - DaysBeforeYear(y)
                 m == CHOOSE mm \in 1..12 :
                          /\ DaysBeforeMonth(y, mm) < rest
                          /\ rest <= DaysBeforeMonth(y, mm) + DaysInMonth(y, mm)
             IN  [y |-> y, m |-> m, d |-> rest - DaysBeforeMonth(y, m)]

(* an ISO year, week and weekday as a date: week 53 only in the years that
   have one *)
IsoToYmd(iso_year, iso_week, iso_day) ==
    LET first_weekday == Weekday(iso_year, 1, 1)
        has53 == first_weekday = 3 \/ (first_weekday = 2 /\ IsLeap(iso_year))
    IN  IF iso_year < 1 THEN NoDate
        ELSE IF iso_week <= 0 \/ iso_week > 53 \/ (iso_week = 53 /\ ~has53)
        THEN NoDate
        ELSE IF iso_day <= 0 \/ iso_day >= 8 THEN NoDate
        ELSE OrdToYmd(IsoWeek1Monday(iso_year) + (iso_week - 1) * 7 + iso_day - 1,
                      iso_year)

(* the character at position i, the terminator past the end *)
At(s, i) == IF i \in DOMAIN s THEN s[i] ELSE ""

DigitsAt(s, i, n) == \A k \in i..(i + n - 1) : IsAsciiDigitChar(At(s, k))

Num2(s, i) == 10 * DigitVal(s[i]) + DigitVal(s[i + 1])

Num4(s, i) == 100 * Num2(s, i) + Num2(s, i + 2)

(* date(year, month, day): ValueError outside the calendar *)
MakeDate(y, m, d) ==
    IF ValidDate(y, m, d) THEN [y |-> y, m |-> m, d |-> d] ELSE NoDate

(* date.fromisoformat(s) of CPython 3.11 for a str s; NoDate stands for the
   ValueError.  The text must take 7, 8 or 10 bytes; it is read from the
   left as YYYY[-]MM[-]DD or YYYY[-]Www[[-]D], the second separator being
   there exactly when the first is, and what follows the part read is not
   looked at. *)
FromIsoFormat(s) ==
    IF Utf8Len(s) \notin {7, 8, 10} \/ ~DigitsAt(s, 1, 4) THEN NoDate
    ELSE
    LET year == Num4(s, 1)
        uses_separator == At(s, 5) = "-"
        p == IF uses_separator THEN 6 ELSE 5
        q == IF At(s, p) = "W" THEN p + 3 ELSE p + 2
        r == IF uses_separator THEN q + 1 ELSE q
    IN  IF At(s, p) = "W"
        THEN IF ~DigitsAt(s, p + 1, 2) THEN NoDate
             ELSE IF q - 1 < Utf8Len(s)
             THEN IF uses_separator /\ At(s, q) # "-" THEN NoDate
                  ELSE IF ~DigitsAt(s, r, 1) THEN NoDate
                  ELSE IsoToYmd(year, Num2(s, p + 1), DigitVal(s[r]))
             ELSE IsoToYmd(year, Num2(s, p + 1), 1)
        ELSE IF ~DigitsAt(s, p, 2) THEN NoDate
        ELSE IF uses_separator /\ At(s, q) # "-" THEN NoDate
        ELSE IF ~DigitsAt(s, r, 2) THEN NoDate
        ELSE MakeDate(year, Num2(s, p), Num2(s, r))

(* date comparison: by (year, month, day) *)
DateLE(a, b) ==
    \/ a.y < b.y
    \/ a.y = b.y /\ a.m < b.m
    \/ a.y = b.y /\ a.m = b.m /\ a.d <= b.d

DateLT(a, b) == DateLE(a, b) /\ a # b

Fmt2(n) == <<DigitChar(n \div 10), DigitChar(n % 10)>>

(* str(date): date.isoformat(), YYYY-MM-DD *)
IsoFormat(dt) ==
    Fmt2(dt.y \div 100) \o Fmt2(dt.y % 100) \o <<"-">> \o Fmt2(dt.m)
        \o <<"-">> \o Fmt2(dt.d)

----------------------------------------------------------------------------
(* models.py *)

(* Company.pad_cik: strip, reject a non-numeric value, zfill(10).
   ok = FALSE stands for the ValueError("CIK must be numeric"). *)
CompanyPadCik(v) ==
    LET s == Strip(v)
    IN  IF ~IsDigit(s)
        THEN [ok |-> FALSE, v |-> <<>>]
        ELSE [ok |-> TRUE, v |-> Zfill(s, CikWidth)]

(* Filing.pad_cik *)
FilingPadCik(v) == Zfill(v, CikWidth)

(* Filing(...): the validated model instance built in list_filings *)
MakeFiling(cik, company_name, form_type, filing_date, accession_number) ==
    [cik |-> FilingPadCik(cik),
     company_name |-> company_name,
     form_type |-> form_type,
     filing_date |-> filing_date,
     accession_number |-> accession_number]

(* FilingFilter.positive_limit: construction fails unless limit > 0 *)
PositiveLimit(v) == v > 0

NoList == [t |-> "none", v |-> <<>>]
SomeList(l) == [t |-> "list", v |-> l]
NoBound == [t |-> "none", v |-> NoDate]
SomeDate(dt) == [t |-> "date", v |-> dt]

----------------------------------------------------------------------------
(* client.py: SECClient.lookup_company *)

NoCompany == [ticker |-> <<>>, cik |-> <<>>, name |-> <<>>]

LookupFail(error, msg) ==
    [kind |-> "error", error |-> error, msg |-> msg, value |-> NoCompany]

(* lookup_company with the directory consulted before the blank check *)
LookupDirectoryFirst(comp, ticker) ==
    LET key == Upper(ticker)
    IN  IF key \notin DOMAIN comp
        THEN LookupFail("ValueError", "not found")
        ELSE IF Strip(ticker) = <<>>
        THEN LookupFail("ValueError", "Ticker must be a non-empty string")
        ELSE LET padded == CompanyPadCik(Strip(ToStr(GetOrEmpty(comp[key].cik))))
             IN  IF ~padded.ok
                 THEN LookupFail("ValidationError", "CIK must be numeric")
                 ELSE [kind |-> "ok", error |-> "", msg |-> "",
                       value |-> [ticker |-> key, cik |-> padded.v, name |-> key]]

LookupCompanyResult(comp, ticker) ==
    IF ticker = <<>> \/ Strip(ticker) = <<>>
    THEN LookupFail("ValueError", "Ticker must be a non-empty string")
    ELSE
    LET key == Upper(ticker)
    IN  IF key \notin DOMAIN comp
        THEN LookupFail("ValueError", "not found")
        ELSE
        LET data == comp[key]
            cik == Strip(ToStr(GetOrEmpty(data.cik)))
            name == IF Truthy(Get(data.name)) THEN ToStr(data.name) ELSE key
            padded == CompanyPadCik(cik)
        IN  IF cik = <<>>
            THEN LookupFail("ValueError", "missing CIK")
            ELSE IF ~padded.ok
            THEN LookupFail("ValidationError", "CIK must be numeric")
            ELSE IF Truthy(Get(data.name)) /\ data.name.t # "str"
            THEN LookupFail("ValidationError", "Input should be a valid string")
            ELSE [kind |-> "ok", error |-> "", msg |-> "",
                  value |-> [ticker |-> key, cik |-> padded.v, name |-> name]]

----------------------------------------------------------------------------
(* client.py: SECClient.list_filings *)

QueryFail(error, msg) ==
    [kind |-> "error", error |-> error, msg |-> msg, value |-> <<>>]

QueryOk(fs) == [kind |-> "ok", error |-> "", msg |-> "", value |-> fs]

(* The loop over self._filings: records of another owner, records with a
   falsy date and records whose date text does not parse are skipped; a
   truthy date that is not a str makes date.fromisoformat raise TypeError,
   which the except ValueError clause does not catch.  company_name,
   form_type and accession_number are read with raw.get(key, ""); Filing
   declares them str and raises ValidationError for any other value. *)
RECURSIVE Scan(_, _, _, _)
Scan(fs, i, cik_padded, acc) ==
    IF i > Len(fs) THEN QueryOk(acc)
    ELSE
    LET raw == fs[i]
        raw_cik == Zfill(ToStr(GetOrEmpty(raw.cik)), CikWidth)
        filing_date_str == Get(raw.filing_date)
        company_name == GetOrEmpty(raw.company_name)
        form_type == GetOrEmpty(raw.form_type)
        accession_number == GetOrEmpty(raw.accession_number)
    IN  IF raw_cik # cik_padded THEN Scan(fs, i + 1, cik_padded, acc)
        ELSE IF ~Truthy(filing_date_str) THEN Scan(fs, i + 1, cik_padded, acc)
        ELSE IF filing_date_str.t # "str"
        THEN QueryFail("TypeError", "fromisoformat: argument must be str")
        ELSE IF FromIsoFormat(filing_date_str.v) = NoDate
        THEN Scan(fs, i + 1, cik_padded, acc)
        ELSE IF \E field \in {company_name, form_type, accession_number} :
                    field.t # "str"
        THEN QueryFail("ValidationError", "Input should be a valid string")
        ELSE Scan(fs, i + 1, cik_padded,
                  Append(acc, MakeFiling(raw_cik, company_name.v, form_type.v,
                                         FromIsoFormat(filing_date_str.v),
                                         accession_number.v)))

(* [f for i, f in enumerate(fs) if keep[i]] *)
SelectWhere(fs, keep) ==
    LET F[i \in 0..Len(fs)] ==
            IF i = 0 THEN <<>>
            ELSE IF keep[i] THEN Append(F[i - 1], fs[i]) ELSE F[i - 1]
    IN  F[Len(fs)]

(* if filters.form_types: keep f when f.form_type.upper() is in
   {ft.upper() for ft in filters.form_types} *)
FilterFormTypes(fs, form_types) ==
    IF form_types.t = "list" /\ form_types.v # <<>>
    THEN LET allowed == {Upper(form_types.v[k]) : k \in DOMAIN form_types.v}
         IN  SelectWhere(fs, [i \in DOMAIN fs |-> Upper(fs[i].form_type) \in allowed])
    ELSE fs

(* if filters.date_from: keep f when f.filing_date >= date_from *)
FilterDateFrom(fs, date_from) ==
    IF date_from.t = "date"
    THEN SelectWhere(fs, [i \in DOMAIN fs |-> DateLE(date_from.v, fs[i].filing_date)])
    ELSE fs

(* if filters.date_to: keep f when f.filing_date <= date_to *)
FilterDateTo(fs, date_to) ==
    IF date_to.t = "date"
    THEN SelectWhere(fs, [i \in DOMAIN fs |-> DateLE(fs[i].filing_date, date_to.v)])
    ELSE fs

(* x placed before the first of the positions in later, at the end when
   there is none *)
InsertBefore(sorted, x, later) ==
    LET pos == IF later = {} THEN Len(sorted) + 1
               ELSE CHOOSE k \in later : \A j \in later : k <= j
    IN  SubSeq(sorted, 1, pos - 1) \o <<x>> \o SubSeq(sorted, pos, Len(sorted))

(* a sort by date that puts the earliest first (the reverse flag lost) *)
SortByDateAsc(fs) ==
    LET F[i \in 0..Len(fs)] ==
            IF i = 0 THEN <<>>
            ELSE InsertBefore(F[i - 1], fs[i],
                     {k \in DOMAIN F[i - 1] :
                         DateLT(fs[i].filing_date, F[i - 1][k].filing_date)})
    IN  F[Len(fs)]

(* a descending sort that reverses records of equal date, as
   reversed(sorted(...)) would *)
SortByDateDescReversingTies(fs) ==
    LET F[i \in 0..Len(fs)] ==
            IF i = 0 THEN <<>>
            ELSE InsertBefore(F[i - 1], fs[i],
                     {k \in DOMAIN F[i - 1] :
                         DateLE(F[i - 1][k].filing_date, fs[i].filing_date)})
    IN  F[Len(fs)]

(* filings.sort(key=lambda f: f.filing_date, reverse=True): list.sort is
   stable and keeps the original order of equal keys under reverse=True.
   Each record goes before the first one with a strictly earlier date. *)
SortByDateDesc(fs) ==
    LET F[i \in 0..Len(fs)] ==
            IF i = 0 THEN <<>>
            ELSE InsertBefore(F[i - 1], fs[i],
                     {k \in DOMAIN F[i - 1] :
                         DateLT(F[i - 1][k].filing_date, fs[i].filing_date)})
    IN  F[Len(fs)]

Min(a, b) == IF a <= b THEN a ELSE b

(* a slice that keeps one record too many *)
TruncateOneTooMany(fs, limit) == SubSeq(fs, 1, Min(limit + 1, Len(fs)))

(* filings[: filters.limit], limit > 0 *)
Truncate(fs, limit) == SubSeq(fs, 1, Min(limit, Len(fs)))

ListFilingsResult(fs, cik, filters) ==
    IF cik = <<>> \/ Strip(cik) = <<>>
    THEN QueryFail("ValueError", "CIK must be provided")
    ELSE
    LET cik_padded == Zfill(cik, CikWidth)
        scanned == Scan(fs, 1, cik_padded, <<>>)
    IN  IF scanned.kind = "error" THEN scanned
        ELSE QueryOk(Truncate(SortByDateDesc(
                 FilterDateTo(FilterDateFrom(
                     FilterFormTypes(scanned.value, filters.form_types),
                     filters.date_from), filters.date_to)), filters.limit))

----------------------------------------------------------------------------
(* client.py: SECClient.download_filing *)

NoFiling == [t |-> "none", v |-> MakeFiling(<<>>, <<>>, <<>>, NoDate, <<>>)]
SomeFiling(f) == [t |-> "filing", v |-> f]

NoDir == [t |-> "none", v |-> ""]
SomeDir(d) == [t |-> "path", v |-> d]

(* filing.model_dump() written by json.dump(..., default=str): the date is
   written as its ISO text *)
Serialize(f) ==
    [cik |-> f.cik,
     company_name |-> f.company_name,
     form_type |-> f.form_type,
     filing_date |-> IsoFormat(f.filing_date),
     accession_number |-> f.accession_number]

(* out_dir / f"{filing.accession_number}.json" *)
FilePath(dir, f) == <<dir, f.accession_number \o <<".", "j", "s", "o", "n">> >>

WithFile(files, path, content) ==
    [p \in DOMAIN files \cup {path} |-> IF p = path THEN content ELSE files[p]]

ExportFail(error, msg, cause) ==
    [kind |-> "error", error |-> error, msg |-> msg, cause |-> cause,
     value |-> <<>>]

(* The outcome and the file system after download_filing.  fault names the
   step at which the operating system refuses: "mkdir" (creating a directory
   that does not exist yet), "open", "write", or "none".  Path.mkdir runs
   before the try block, so its OSError leaves the method as it is.  A file
   is complete when all of data was written; a failing write leaves the
   opened file with a part of it. *)
DownloadFilingResult(fs, filing, out_dir, fault) ==
    IF filing.t # "filing"
    THEN [fsys |-> fs,
          result |-> ExportFail("ValueError",
                                "Invalid Filing object provided for download.", "")]
    ELSE
    LET dir == IF out_dir.t = "path" /\ out_dir.v # "" THEN out_dir.v
               ELSE "downloads"
        path == FilePath(dir, filing.v)
        made == [fs EXCEPT !.dirs = @ \cup {dir}]
    IN  IF fault = "mkdir" /\ dir \notin fs.dirs
        THEN [fsys |-> fs, result |-> ExportFail("OSError", "mkdir", "")]
        ELSE IF fault = "open"
        THEN [fsys |-> made,
              result |-> ExportFail("ValueError", "Failed to save filing", "OSError")]
        ELSE IF fault = "write"
        THEN [fsys |-> [made EXCEPT !.files =
                           WithFile(@, path, [complete |-> FALSE,
                                              data |-> Serialize(filing.v)])],
              result |-> ExportFail("ValueError", "Failed to save filing", "OSError")]
        ELSE [fsys |-> [made EXCEPT !.files =
                           WithFile(@, path, [complete |-> TRUE,
                                              data |-> Serialize(filing.v)])],
              result |-> [kind |-> "ok", error |-> "", msg |-> "", cause |-> "",
                          value |-> path]]

----------------------------------------------------------------------------
(* Input texts *)

Cik320193 == <<"3", "2", "0", "1", "9", "3">>
CikPadded == <<"0", "0", "0", "0", "3", "2", "0", "1", "9", "3">>
CikLong == <<"0", "0", "0", "0", "0", "3", "2", "0", "1", "9", "3">>
CikSpaced == <<" ", "3", "2", "0", "1", "9", "3", " ">>
CikElevenDigits == <<"1", "2", "3", "4", "5", "6", "7", "8", "9", "0", "1">>
CikNotNumeric == <<"3", "2", "O", "1", "9", "3">>
Cik789019 == <<"7", "8", "9", "0", "1", "9">>

Date20240601 == <<"2", "0", "2", "4", "-", "0", "6", "-", "0", "1">>
Date20240101 == <<"2", "0", "2", "4", "-", "0", "1", "-", "0", "1">>
Date20231201 == <<"2", "0", "2", "3", "-", "1", "2", "-", "0", "1">>
Date20240230 == <<"2", "0", "2", "4", "-", "0", "2", "-", "3", "0">>
DateWeek2023W485 == <<"2", "0", "2", "3", "-", "W", "4", "8", "-", "5">>
Int20240101 == <<"2", "0", "2", "4", "0", "1", "0", "1">>

Form10K == <<"1", "0", "-", "K">>
Form10kLower == <<"1", "0", "-", "k">>
Form10Q == <<"1", "0", "-", "Q">>
FormScToI == <<"S", "C", " ", "T", "O", "-", "I">>
FormScToDotless == <<"s", "c", " ", "t", "o", "-", "U+0131">>

NameApple == <<"A", "p", "p", "l", "e", " ", "I", "n", "c", ".">>
NameMicrosoft == <<"M", "i", "c", "r", "o", "s", "o", "f", "t">>

TickerAAPL == <<"A", "A", "P", "L">>
TickerAaplLower == <<"a", "a", "p", "l">>
TickerAaplMixed == <<"A", "a", "p", "l">>
TickerMSFT == <<"M", "S", "F", "T">>
TickerMsftLower == <<"m", "s", "f", "t">>
TickerGOOG == <<"G", "O", "O", "G">>
TickerBlank == <<" ">>
CikBlank == <<" ", "\r">>
TickerReturn == <<"\r">>
CikSuperscript == <<"U+00B2">>

(* the accession number of the i-th stored record *)
Accession(i) == <<"A", "C", "C", "-", DigitChar(i)>>

----------------------------------------------------------------------------
(* Datasets handed to SECClient.__init__ *)

(* what a raw filing entry may hold as cik, filing_date and form_type *)
RawShapes ==
    { [cik |-> PyStr(Cik320193), filing_date |-> PyStr(Date20240601),
       form_type |-> PyStr(Form10K)],
      [cik |-> PyStr(Cik320193), filing_date |-> PyStr(Date20240101),
       form_type |-> Absent],
      [cik |-> PyStr(CikPadded), filing_date |-> PyStr(Date20240601),
       form_type |-> PyStr(Form10kLower)],
      [cik |-> PyStr(Cik320193), filing_date |-> PyStr(Date20240230),
       form_type |-> PyStr(Form10K)],
      [cik |-> PyStr(CikPadded), filing_date |-> Absent,
       form_type |-> PyStr(Form10Q)],
      [cik |-> PyInt(Cik320193), filing_date |-> PyInt(Int20240101),
       form_type |-> PyStr(Form10K)],
      [cik |-> PyStr(CikLong), filing_date |-> PyStr(DateWeek2023W485),
       form_type |-> PyNone],
      [cik |-> PyStr(Cik320193), filing_date |-> PyStr(Date20231201),
       form_type |-> PyStr(FormScToDotless)] }

RawFiling(shape, i) ==
    [cik |-> shape.cik,
     company_name |-> PyStr(NameApple),
     form_type |-> shape.form_type,
     filing_date |-> shape.filing_date,
     accession_number |-> PyStr(Accession(i))]

FilingLists ==
    UNION { { [i \in 1..n |-> RawFiling(f[i], i)] : f \in [1..n -> RawShapes] }
            : n \in 1..MaxFilings }

(* the three filings of the test scenario *)
FixtureFilings ==
    << RawFiling([cik |-> PyStr(CikPadded), filing_date |-> PyStr(Date20240101),
                  form_type |-> PyStr(Form10Q)], 1),
       RawFiling([cik |-> PyStr(CikPadded), filing_date |-> PyStr(Date20240601),
                  form_type |-> PyStr(Form10K)], 2),
       RawFiling([cik |-> PyStr(CikPadded), filing_date |-> PyStr(Date20231201),
                  form_type |-> PyStr(Form10Q)], 3) >>

DirectoryKeys == {TickerAAPL, TickerMsftLower, TickerBlank}

DirectoryEntries ==
    { [cik |-> PyStr(Cik320193), name |-> PyStr(NameApple)],
      [cik |-> PyStr(CikSpaced), name |-> Absent],
      [cik |-> PyStr(CikElevenDigits), name |-> PyStr(NameApple)],
      [cik |-> Absent, name |-> PyStr(NameApple)],
      [cik |-> PyInt(Cik789019), name |-> PyStr(<<>>)],
      [cik |-> PyStr(CikNotNumeric), name |-> PyStr(NameApple)],
      [cik |-> PyStr(CikSuperscript), name |-> PyStr(NameApple)] }

Directories ==
    UNION { [ks -> DirectoryEntries] :
            ks \in {k \in SUBSET DirectoryKeys :
                        Cardinality(k) \in 1..MaxCompanies} }

FixtureDirectory ==
    [k \in {TickerAAPL, TickerMSFT} |->
        IF k = TickerAAPL
        THEN [cik |-> PyStr(Cik320193), name |-> PyStr(NameApple)]
        ELSE [cik |-> PyStr(Cik789019), name |-> PyStr(NameMicrosoft)]]

----------------------------------------------------------------------------
(* Arguments of the calls *)

Tickers ==
    {TickerAAPL, TickerAaplLower, TickerAaplMixed, TickerMsftLower, TickerGOOG,
     TickerBlank, TickerReturn, <<>>}

QueryCiks == {Cik320193, CikPadded, CikLong, CikBlank}

FilingFilters ==
    [form_types : {NoList, SomeList(<<>>), SomeList(<<Form10kLower, FormScToI>>)},
     date_from : {NoBound, SomeDate(FromIsoFormat(Date20240601))},
     date_to : {NoBound, SomeDate(FromIsoFormat(Date20240101))},
     limit : {l \in 0..MaxLimit : PositiveLimit(l)}]

(* Filing objects a caller can hold: what list_filings returns for the
   fixture, and None *)
ExportFilings ==
    {SomeFiling(f) :
        f \in Range(ListFilingsResult(FixtureFilings, CikPadded,
                        [form_types |-> NoList, date_from |-> NoBound,
                         date_to |-> NoBound, limit |-> Len(FixtureFilings)]).value)}
    \cup {NoFiling}

OutDirs == {NoDir, SomeDir("out")}

Faults == {"none", "mkdir", "open", "write"}

----------------------------------------------------------------------------
(* The client and its caller.  companies and filings are self._companies
   and self._filings; fsys is the file system download_filing writes to;
   call is the caller's position: idle, or holding the outcome of the call
   it just made. *)

Idle == [op |-> "idle"]

EmptyFsys == [dirs |-> {}, files |-> <<>>]

Init ==
    /\ \/ companies = FixtureDirectory /\ filings \in FilingLists
       \/ companies \in Directories /\ filings = FixtureFilings
    /\ fsys = EmptyFsys
    /\ call = Idle

InitExport ==
    /\ companies = FixtureDirectory
    /\ filings = FixtureFilings
    /\ fsys = EmptyFsys
    /\ call = Idle

LookupCompany(ticker) ==
    /\ call.op = "idle"
    /\ call' = [op |-> "lookup_company", ticker |-> ticker,
                result |-> LookupCompanyResult(companies, ticker)]
    /\ UNCHANGED <<companies, filings, fsys>>

(* list_filings keeping only the owner's entries in self._filings *)
ListFilingsNarrowingStored(cik, filters) ==
    /\ call.op = "idle"
    /\ call' = [op |-> "list_filings", cik |-> cik, filters |-> filters,
                result |-> ListFilingsResult(filings, cik, filters)]
    /\ filings' =
           SelectWhere(filings,
               [i \in DOMAIN filings |->
                   Zfill(ToStr(GetOrEmpty(filings[i].cik)), CikWidth)
                       = Zfill(cik, CikWidth)])
    /\ UNCHANGED <<companies, fsys>>

ListFilings(cik, filters) ==
    /\ call.op = "idle"
    /\ call' = [op |-> "list_filings", cik |-> cik, filters |-> filters,
                result |-> ListFilingsResult(filings, cik, filters)]
    /\ UNCHANGED <<companies, filings, fsys>>

DownloadFiling(filing, out_dir, fault) ==
    /\ call.op = "idle"
    /\ LET out == DownloadFilingResult(fsys, filing, out_dir, fault)
       IN  /\ fsys' = out.fsys
           /\ call' = [op |-> "download_filing", filing |-> filing,
                       out_dir |-> out_dir, fault |-> fault, result |-> out.result]
    /\ UNCHANGED <<companies, filings>>

(* the caller is done with the outcome and may call again *)
Return ==
    /\ call.op # "idle"
    /\ call' = Idle
    /\ UNCHANGED <<companies, filings, fsys>>

Next ==
    \/ \E ticker \in Tickers : LookupCompany(ticker)
    \/ \E cik \in QueryCiks, filters \in FilingFilters : ListFilings(cik, filters)
    \/ Return

Spec == Init /\ [][Next]_vars

NextExport ==
    \/ \E filing \in ExportFilings, out_dir \in OutDirs, fault \in Faults :
           DownloadFiling(filing, out_dir, fault)
    \/ Return

SpecExport == InitExport /\ [][NextExport]_vars

----------------------------------------------------------------------------
(* Vocabulary of the properties, stated over the stored data rather than
   over the pipeline of list_filings *)

Returned == call.op = "list_filings" /\ call.result.kind = "ok"

Result == call.result.value

(* c.casefold() for c in ASCII, below U+0100, and for the characters it
   leaves as they are, U+0131 among them *)
FoldChar(c) ==
    CASE c \in Range(UpperChars) ->
             <<LowerChars[CHOOSE i \in DOMAIN UpperChars : UpperChars[i] = c]>>
      [] c = "U+00B5" -> <<"U+03BC">>
      [] c = "U+00C0" -> <<"U+00E0">>
      [] c = "U+00C1" -> <<"U+00E1">>
      [] c = "U+00C2" -> <<"U+00E2">>
      [] c = "U+00C3" -> <<"U+00E3">>
      [] c = "U+00C4" -> <<"U+00E4">>
      [] c = "U+00C5" -> <<"U+00E5">>
      [] c = "U+00C6" -> <<"U+00E6">>
      [] c = "U+00C7" -> <<"U+00E7">>
      [] c = "U+00C8" -> <<"U+00E8">>
      [] c = "U+00C9" -> <<"U+00E9">>
      [] c = "U+00CA" -> <<"U+00EA">>
      [] c = "U+00CB" -> <<"U+00EB">>
      [] c = "U+00CC" -> <<"U+00EC">>
      [] c = "U+00CD" -> <<"U+00ED">>
      [] c = "U+00CE" -> <<"U+00EE">>
      [] c = "U+00CF" -> <<"U+00EF">>
      [] c = "U+00D0" -> <<"U+00F0">>
      [] c = "U+00D1" -> <<"U+00F1">>
      [] c = "U+00D2" -> <<"U+00F2">>
      [] c = "U+00D3" -> <<"U+00F3">>
      [] c = "U+00D4" -> <<"U+00F4">>
      [] c = "U+00D5" -> <<"U+00F5">>
      [] c = "U+00D6" -> <<"U+00F6">>
      [] c = "U+00D8" -> <<"U+00F8">>
      [] c = "U+00D9" -> <<"U+00F9">>
      [] c = "U+00DA" -> <<"U+00FA">>
      [] c = "U+00DB" -> <<"U+00FB">>
      [] c = "U+00DC" -> <<"U+00FC">>
      [] c = "U+00DD" -> <<"U+00FD">>
      [] c = "U+00DE" -> <<"U+00FE">>
      [] c = "U+00DF" -> <<"s", "s">>
      [] c = "U+0178" -> <<"U+00FF">>
      [] c = "U+039C" -> <<"U+03BC">>
      [] OTHER -> <<c>>

(* s.casefold() *)
RECURSIVE Fold(_)
Fold(s) == IF s = <<>> THEN <<>> ELSE FoldChar(Head(s)) \o Fold(Tail(s))

(* text made of the digits "0".."9" only *)
IsAsciiDigits(s) == s # <<>> /\ \A i \in DOMAIN s : IsAsciiDigitChar(s[i])

(* the i-th stored record belongs to the owner the query names *)
OwnedBy(i, cik) ==
    Zfill(ToStr(GetOrEmpty(filings[i].cik)), CikWidth) = Zfill(cik, CikWidth)

(* the i-th stored record's date field is text that names a calendar date *)
HasDate(i) ==
    /\ filings[i].filing_date.t = "str"
    /\ FromIsoFormat(filings[i].filing_date.v) # NoDate

StoredDate(i) == FromIsoFormat(filings[i].filing_date.v)

(* the text the i-th stored record holds under a key, "" for a missing key *)
StoredFormType(i) == ToStr(GetOrEmpty(filings[i].form_type))

StoredAccession(i) == ToStr(GetOrEmpty(filings[i].accession_number))

(* the i-th stored record holds text, or nothing, under the three text keys *)
TextFields(i) ==
    /\ GetOrEmpty(filings[i].company_name).t = "str"
    /\ GetOrEmpty(filings[i].form_type).t = "str"
    /\ GetOrEmpty(filings[i].accession_number).t = "str"

(* the form-type predicate of a query, as a comparison of upper-cased
   forms; C5 is about how it relates to case folding *)
PassesFormTypes(i, filters) ==
    (filters.form_types.t = "list" /\ filters.form_types.v # <<>>)
        => \E k \in DOMAIN filters.form_types.v :
               Upper(StoredFormType(i)) = Upper(filters.form_types.v[k])

PassesDates(i, filters) ==
    /\ filters.date_from.t = "date" => DateLE(filters.date_from.v, StoredDate(i))
    /\ filters.date_to.t = "date" => DateLE(StoredDate(i), filters.date_to.v)

(* the stored records the query is about: owned, admitted, passing every
   predicate that is present *)
Matching(cik, filters) ==
    {i \in DOMAIN filings :
        /\ OwnedBy(i, cik)
        /\ HasDate(i)
        /\ PassesFormTypes(i, filters)
        /\ PassesDates(i, filters)}

ResultAccessions == {Result[k].accession_number : k \in DOMAIN Result}

(* where a returned record sits in the stored collection *)
StoredIndex(f) ==
    CHOOSE i \in DOMAIN filings : StoredAccession(i) = f.accession_number

(* text of a nonnegative integer without its leading zeros *)
RECURSIVE StripZeros(_)
StripZeros(s) ==
    IF Len(s) > 1 /\ Head(s) = "0" THEN StripZeros(Tail(s)) ELSE s

SameNumber(a, b) ==
    IsAsciiDigits(a) /\ IsAsciiDigits(b) /\ StripZeros(a) = StripZeros(b)

----------------------------------------------------------------------------
(* C1: the sequence list_filings returns has non-increasing filing dates:
   for positions i < j, result[i].filing_date >= result[j].filing_date. *)
C1_SortedNewestFirst ==
    Returned =>
        \A i, j \in DOMAIN Result :
            i < j => DateLE(Result[j].filing_date, Result[i].filing_date)

(* a query returned two records of different dates that are stored in the
   opposite order *)
C1_Witness ==
    /\ Returned
    /\ Len(Result) >= 2
    /\ DateLT(Result[2].filing_date, Result[1].filing_date)
    /\ StoredIndex(Result[2]) < StoredIndex(Result[1])

(* C2: list_filings returns the head of the sorted sequence: with n the
   number of the owner's admitted records passing every present predicate,
   the result has exactly min(limit, n) records, none left out is strictly
   later than a returned one, and with limit 1 the record returned has the
   most recent date. *)
C2_HeadOfSorted ==
    Returned =>
        LET matching == Matching(call.cik, call.filters)
            n == Cardinality(matching)
            limit == call.filters.limit
        IN  /\ Len(Result) = Min(limit, n)
            /\ Len(Result) <= limit
            /\ ResultAccessions \subseteq
                   {StoredAccession(i) : i \in matching}
            /\ \A i \in matching :
                   StoredAccession(i) \notin ResultAccessions
                       => \A k \in DOMAIN Result :
                              ~DateLT(Result[k].filing_date, StoredDate(i))
            /\ (limit = 1 /\ n >= 1)
                   => /\ Len(Result) = 1
                      /\ \A i \in matching :
                             DateLE(StoredDate(i), Result[1].filing_date)

(* a query whose limit cut matching records off *)
C2_Witness ==
    /\ Returned
    /\ Len(Result) = call.filters.limit
    /\ Cardinality(Matching(call.cik, call.filters)) > call.filters.limit
    /\ \E i \in Matching(call.cik, call.filters) :
           /\ StoredAccession(i) \notin ResultAccessions
           /\ DateLT(StoredDate(i), Result[Len(Result)].filing_date)

(* C3: a stored record of the target owner whose date field is absent,
   empty or not parsable as a calendar date, whatever value the field
   holds, is dropped silently: where the owner's dated records hold text
   under the text keys, the query does not raise, and the record is in no
   result. *)
C3_BadDatesDropped ==
    (call.op = "list_filings" /\ Strip(call.cik) # <<>>
        /\ \A i \in DOMAIN filings :
               (OwnedBy(i, call.cik) /\ HasDate(i)) => TextFields(i))
        => /\ call.result.kind = "ok"
           /\ \A i \in DOMAIN filings :
                  (OwnedBy(i, call.cik) /\ ~HasDate(i))
                      => StoredAccession(i) \notin ResultAccessions

(* C4: for a symbol whose upper-cased form is a directory key with a usable
   numeric identifier, lookup_company succeeds, and every Company returned
   has an identifier of exactly 10 digits, the source identifier
   left-padded with "0". *)
C4_IdentifierTenDigits ==
    call.op = "lookup_company" =>
        LET key == Upper(call.ticker)
            usable == /\ Strip(call.ticker) # <<>>
                      /\ key \in DOMAIN companies
                      /\ IsAsciiDigits(Strip(ToStr(GetOrEmpty(companies[key].cik))))
        IN  /\ usable => call.result.kind = "ok"
            /\ call.result.kind = "ok"
                   => /\ Len(call.result.value.cik) = CikWidth
                      /\ IsAsciiDigits(call.result.value.cik)
                      /\ SameNumber(call.result.value.cik,
                                    Strip(ToStr(GetOrEmpty(companies[key].cik))))

(* C5: with a non-empty form_types every returned record's form type,
   case-folded, equals the case-folded form of a member; with form_types
   absent or empty no record is excluded for its form type. *)
C5_FormTypeFilter ==
    Returned =>
        LET ft == call.filters.form_types
            dated == {i \in DOMAIN filings :
                         OwnedBy(i, call.cik) /\ HasDate(i)
                             /\ PassesDates(i, call.filters)}
        IN  /\ (ft.t = "list" /\ ft.v # <<>>)
                   => \A k \in DOMAIN Result :
                          \E m \in DOMAIN ft.v :
                              Fold(Result[k].form_type) = Fold(ft.v[m])
            /\ (ft.t = "none" \/ ft.v = <<>>)
                   => Len(Result) = Min(call.filters.limit, Cardinality(dated))

(* C6: lookup_company fails and returns no Company for an empty or
   whitespace-only symbol (InvalidInput) and for a symbol whose upper-cased
   form is no directory key (NotFound); the blank check comes first, so a
   blank symbol is never reported as NotFound. *)
C6_LookupRejects ==
    call.op = "lookup_company" =>
        /\ Strip(call.ticker) = <<>>
               => /\ call.result.kind = "error"
                  /\ call.result.msg = "Ticker must be a non-empty string"
                  /\ call.result.value = NoCompany
        /\ (Strip(call.ticker) # <<>> /\ Upper(call.ticker) \notin DOMAIN companies)
               => /\ call.result.kind = "error"
                  /\ call.result.msg = "not found"
                  /\ call.result.value = NoCompany

(* a blank symbol was looked up in a directory that has that blank key *)
C6_Witness ==
    /\ call.op = "lookup_company"
    /\ Strip(call.ticker) = <<>>
    /\ Upper(call.ticker) \in DOMAIN companies
    /\ call.result.kind = "error"

(* C7: the result of list_filings is the same for any two spellings of the
   same numeric identifier, with or without leading zeros. *)
C7_SpellingInsensitive ==
    (call.op = "list_filings" /\ Strip(call.cik) # <<>>)
        => \A other \in QueryCiks :
               SameNumber(call.cik, other)
                   => ListFilingsResult(filings, other, call.filters) = call.result

(* C8: an I/O failure at any step of download_filing (creating the
   directory, opening the file, writing) reaches the caller as the
   ValueError "Failed to save filing" wrapping the cause. *)
C8_ExportFailuresWrapped ==
    (call.op = "download_filing" /\ call.filing.t = "filing"
        /\ call.result.kind = "error")
        => /\ call.result.error = "ValueError"
           /\ call.result.msg = "Failed to save filing"
           /\ call.result.cause = "OSError"

(* C9: lookup_company and list_filings are pure reads: no call, successful
   or failing, changes the directory or the stored filings, so the call
   just made returns the same when repeated. *)
C9_PureReads ==
    [][/\ companies' = companies
       /\ filings' = filings
       /\ call'.op = "list_filings"
              => call'.result = ListFilingsResult(filings', call'.cik, call'.filters)
       /\ call'.op = "lookup_company"
              => call'.result = LookupCompanyResult(companies', call'.ticker)]_vars

(* a query has returned fewer records than are stored, in another order,
   and the stored collection still holds them all in place *)
C9_Witness ==
    /\ Returned
    /\ Len(Result) >= 1
    /\ Len(Result) < Len(filings)
    /\ StoredIndex(Result[1]) # 1
    /\ \E i \in DOMAIN filings : ~OwnedBy(i, call.cik)

(* C10: the descending sort is stable: two returned records of the same
   filing date keep the relative order they have in the stored collection. *)
C10_StableTies ==
    Returned =>
        \A p, q \in DOMAIN Result :
            (p < q /\ Result[p].filing_date = Result[q].filing_date)
                => StoredIndex(Result[p]) < StoredIndex(Result[q])

(* a query returned two different records of the same filing date *)
C10_Witness ==
    /\ Returned
    /\ Len(Result) >= 2
    /\ Result[1].filing_date = Result[2].filing_date
    /\ Result[1].accession_number # Result[2].accession_number

====
